---- MODULE Spec2Model ----
(***************************************************************************)
(* NIFTY500DataFetcher (src/src/data_ingestion.py): the batch loop of      *)
(* ingest_data, the two per-symbol fetches get_stock_financials and        *)
(* get_share_prices, and the retry loop of safe_request.                   *)
(*                                                                         *)
(* The program is sequential; pc is its position.  The HTTP server, the    *)
(* table parser and the price provider are the environment: each is a set  *)
(* of outcomes it may produce, fixed when the run starts.                  *)
(***************************************************************************)
EXTENDS Integers, Sequences, FiniteSets

\* ---------------------------------------------------------------- bounds

\* longest symbol list explored with an unconstrained environment
MaxLen == 2
\* largest max_retries argument explored (the default, 3, is included)
MaxRetries == 3
\* most <h2> sections a fetched page holds
MaxSections == 1
\* most rows a price history holds
MaxRows == 2
\* longest symbol list of a batch run against a constant environment
MaxBatch == 50

\* ------------------------------------------------------- values and inputs

\* ticker symbols: symbol i stands for the i-th distinct ticker name
Symbols == 1..2

\* response.text of a 200 response, abstracted to the number of <h2> sections
Texts == 0..MaxSections

\* stock.history(...), abstracted to its number of rows (0: hist.empty)
Histories == 0..MaxRows

Response(s, t) == [kind |-> "response", status |-> s, text |-> t]
RequestException == [kind |-> "RequestException", status |-> 0, text |-> 0]
OtherException == [kind |-> "Exception", status |-> 0, text |-> 0]
None == [kind |-> "None", status |-> 0, text |-> 0]

\* what one requests.get call can do: answer with a status, or raise
Outcomes ==
    {Response(200, t) : t \in Texts}
        \cup {Response(s, 0) : s \in {429, 503, 404, 500}}
        \cup {RequestException, OtherException}

\* what the body of the second try block of get_stock_financials can do
ParseOutcomes == {"ok", "raise"}

\* what stock.info / stock.history can do: raise (-1), or return a history
PriceOutcomes == {-1} \cup Histories

\* random.uniform(a, b), sampled at its two ends and its middle
Uniform(a, b) == {a, (a + b) \div 2, b}

\* all sequences over S of length at most n
RECURSIVE SeqsUpTo(_, _)
SeqsUpTo(S, n) ==
    IF n = 0 THEN {<<>>}
    ELSE LET shorter == SeqsUpTo(S, n - 1)
         IN shorter \cup {Append(q, x) : q \in {r \in shorter : Len(r) = n - 1}, x \in S}

\* ---------------------------------------------------------------- state

VARIABLES
    nifty500_symbols,   \* self.nifty500_symbols
    max_retries,        \* the max_retries argument of safe_request
    server,             \* outcomes requests.get may produce in this run
    parser,             \* outcomes the parsing block may produce in this run
    yahoo,              \* outcomes the price provider may produce in this run
    pc,                 \* position of the program
    index,              \* ingest_data's 1-based loop index
    attempt,            \* safe_request's loop variable
    trace,              \* outcomes of the requests of the current safe_request call
    result,             \* what safe_request handed to get_stock_financials
    wait,               \* duration of the time.sleep in progress (0: none)
    stats,              \* self.stats
    stock_financials,   \* self.stock_financials
    share_prices,       \* self.share_prices
    calls,              \* sub-fetch invocations, in order (the "Starting ..." log lines)
    fetched,            \* sub-fetch results, in order (the per-fetch result log lines)
    progress_log,       \* indexes at which _log_progress was called
    stats_log,          \* indexes at which _log_statistics was called
    final_reported      \* _log_final_statistics ran to its end

vars == <<nifty500_symbols, max_retries, server, parser, yahoo, pc, index, attempt,
          trace, result, wait, stats, stock_financials, share_prices, calls, fetched,
          progress_log, stats_log, final_reported>>

env == <<nifty500_symbols, max_retries, server, parser, yahoo>>
stores == <<stock_financials, share_prices>>
logs == <<progress_log, stats_log, final_reported>>
request == <<attempt, trace, result>>

\* ------------------------------------------------------------- helpers

\* d[k] = v on a dict
Put(d, k, v) == [x \in (DOMAIN d) \cup {k} |-> IF x = k THEN v ELSE d[x]]

\* self.stats[key] += 1
Incr(s, key) == [s EXCEPT ![key] = @ + 1]

\* the sections list built from a page with t <h2> headers
Sections(t) == [i \in 1..t |-> "section"]

\* mutants of Classify: 503 not treated as a rate limit; every non-200 status
\* retried; a 200 answered by leaving the loop; the last attempt's network
\* exception followed by a sleep
ClassifyOnly429(o, a, mr) ==
    IF o.kind = "response"
    THEN IF o.status = 200 THEN "return"
         ELSE IF o.status = 429 THEN "rate_limited"
         ELSE "break"
    ELSE IF o.kind = "RequestException"
         THEN IF a < mr - 1 THEN "retry" ELSE "give_up"
         ELSE "propagate"

ClassifyRetryAnyStatus(o, a, mr) ==
    IF o.kind = "response"
    THEN IF o.status = 200 THEN "return" ELSE "rate_limited"
    ELSE IF o.kind = "RequestException"
         THEN IF a < mr - 1 THEN "retry" ELSE "give_up"
         ELSE "propagate"

ClassifyBreakOn200(o, a, mr) ==
    IF o.kind = "response"
    THEN IF o.status \in {429, 503} THEN "rate_limited" ELSE "break"
    ELSE IF o.kind = "RequestException"
         THEN IF a < mr - 1 THEN "retry" ELSE "give_up"
         ELSE "propagate"

ClassifyRetryOnLast(o, a, mr) ==
    IF o.kind = "response"
    THEN IF o.status = 200 THEN "return"
         ELSE IF o.status \in {429, 503} THEN "rate_limited"
         ELSE "break"
    ELSE IF o.kind = "RequestException"
         THEN IF a < mr THEN "retry" ELSE "give_up"
         ELSE "propagate"

\* the branch of safe_request's loop body an outcome takes
Classify(o, a, mr) ==
    IF o.kind = "response"
    THEN IF o.status = 200 THEN "return"
         ELSE IF o.status \in {429, 503} THEN "rate_limited"
         ELSE "break"
    ELSE IF o.kind = "RequestException"
         THEN IF a < mr - 1 THEN "retry" ELSE "give_up"
         ELSE "propagate"

\* the sleep safe_request performs on a branch ({0}: none)
Backoff(c) ==
    IF c = "rate_limited" THEN Uniform(10, 20)
    ELSE IF c = "retry" THEN Uniform(5, 10)
    ELSE {0}

\* safe_request raised instead of returning
IsRaise(r) == r.kind \notin {"response", "None"}

\* mutant of Catches: "except RequestException" in place of "except Exception"
CatchesRequestExceptionOnly(e) == e.kind = "RequestException"

\* the exceptions the first try block of get_stock_financials catches:
\* "except Exception" takes every exception class of the model
Catches(e) == e.kind \in {"RequestException", "Exception"}

\* whether get_stock_financials succeeds, given safe_request's result and the parse
FinancialsOk(r, p) == r.kind = "response" /\ p = "ok"

\* mutant of FinancialsCounter: the failure paths name the price counter
FinancialsCounterWrongKey(ok) == IF ok THEN "successful_financials" ELSE "failed_prices"

\* the counter get_stock_financials increments
FinancialsCounter(ok) == IF ok THEN "successful_financials" ELSE "failed_financials"

\* mutant of FinancialsStore: an existing entry is kept (setdefault)
FinancialsStoreKeepFirst(d, ok, symbol, sections) ==
    IF ok /\ symbol \notin DOMAIN d THEN Put(d, symbol, sections) ELSE d

\* the store after get_stock_financials
FinancialsStore(d, ok, symbol, sections) == IF ok THEN Put(d, symbol, sections) ELSE d

\* mutant of AfterFinancials: a failed financials fetch skips the price fetch
AfterFinancialsSkip(ok) == IF ok THEN "price" ELSE "progress"

\* where ingest_data goes after get_stock_financials returns
AfterFinancials(ok) == "price"

\* whether get_share_prices succeeds on outcome h
PricesOk(h) == h > 0

\* the counter get_share_prices increments
PricesCounter(ok) == IF ok THEN "successful_prices" ELSE "failed_prices"

\* the store after get_share_prices
PricesStore(d, ok, symbol, hist) == IF ok THEN Put(d, symbol, hist) ELSE d

\* mutant of ProgressDue: the position counted from 0 (enumerate without start)
ProgressDueZeroBased(i) == (i - 1) % 10 = 0

\* the two periodic checks of ingest_data
ProgressDue(i) == i % 10 = 0
StatisticsDue(i) == i % 50 = 0

\* mutant of MoreSymbols: the loop stops one symbol early
MoreSymbolsButLast(i, n) == i < n - 1

\* the for loop of ingest_data has another symbol
MoreSymbols(i, n) == i < n

\* ------------------------------------------------------------- initial

InitProgram ==
    /\ pc = "init"
    /\ index = 0
    /\ attempt = 0
    /\ trace = <<>>
    /\ result = None
    /\ wait = 0
    /\ stats = [successful_financials |-> 0, failed_financials |-> 0,
                successful_prices |-> 0, failed_prices |-> 0,
                start_time |-> "None", end_time |-> "None"]
    /\ stock_financials = <<>>
    /\ share_prices = <<>>
    /\ calls = <<>>
    /\ fetched = <<>>
    /\ progress_log = <<>>
    /\ stats_log = <<>>
    /\ final_reported = FALSE

\* the symbol lists of the free runs: duplicates allowed; symbols are opaque, so
\* of the lists that differ only by renaming symbols the one starting with 1 is kept
SymbolLists == {q \in SeqsUpTo(Symbols, MaxLen) : q = <<>> \/ q[1] = 1}

\* short symbol lists, any max_retries, any outcome at any time
InitFree ==
    /\ nifty500_symbols \in SymbolLists
    /\ max_retries \in 0..MaxRetries
    /\ server = Outcomes
    /\ parser = ParseOutcomes
    /\ yahoo = PriceOutcomes
    /\ InitProgram

\* the symbol lists of the batch runs: n distinct symbols
BatchSizes == {25, MaxBatch}

\* long symbol lists, the default max_retries, and an environment that
\* answers every call the same way
InitBatch ==
    /\ \E n \in BatchSizes : nifty500_symbols = [i \in 1..n |-> i]
    /\ max_retries = 3
    /\ \E o \in Outcomes : server = {o}
    /\ \E p \in ParseOutcomes : parser = {p}
    /\ \E h \in PriceOutcomes : yahoo = {h}
    /\ InitProgram

\* ------------------------------------------------------------- actions

\* ingest_data, up to its for loop
ingest_data ==
    /\ pc = "init"
    /\ stats' = [stats EXCEPT !.start_time = "set"]
    /\ pc' = "loop"
    /\ UNCHANGED <<env, index, request, wait, stores, calls, fetched, logs>>

\* the head of ingest_data's for loop: the next symbol
NextSymbol ==
    /\ pc = "loop"
    /\ MoreSymbols(index, Len(nifty500_symbols))
    /\ index' = index + 1
    /\ pc' = "fin"
    /\ UNCHANGED <<env, request, wait, stats, stores, calls, fetched, logs>>

\* the end of ingest_data: end_time, then _log_final_statistics, which divides
\* by total_symbols and so raises ZeroDivisionError on an empty list
Finish ==
    /\ pc = "loop"
    /\ ~MoreSymbols(index, Len(nifty500_symbols))
    /\ stats' = [stats EXCEPT !.end_time = "set"]
    /\ IF Len(nifty500_symbols) = 0
       THEN pc' = "zero_division" /\ final_reported' = FALSE
       ELSE pc' = "done" /\ final_reported' = TRUE
    /\ UNCHANGED <<env, index, request, wait, stores, calls, fetched,
                   progress_log, stats_log>>

\* get_stock_financials, up to its call of safe_request
get_stock_financials ==
    /\ pc = "fin"
    /\ calls' = Append(calls, <<"financials", nifty500_symbols[index]>>)
    /\ attempt' = 0
    /\ trace' = <<>>
    /\ result' = None
    /\ pc' = "req"
    /\ UNCHANGED <<env, index, wait, stats, stores, fetched, logs>>

\* one iteration of safe_request's loop, up to its sleep or its return
Request ==
    /\ pc = "req"
    /\ attempt < max_retries
    /\ \E o \in server :
        LET c == Classify(o, attempt, max_retries)
        IN /\ trace' = Append(trace, o)
           /\ \E w \in Backoff(c) : wait' = w
           /\ pc' = IF c = "rate_limited" THEN "rl_sleep"
                    ELSE IF c = "retry" THEN "ex_sleep"
                    ELSE "ret"
           /\ result' = IF c = "return" THEN o
                        ELSE IF c = "propagate" THEN o
                        ELSE None
    /\ UNCHANGED <<env, index, attempt, stats, stores, calls, fetched, logs>>

\* safe_request's loop is exhausted: return None
Exhausted ==
    /\ pc = "req"
    /\ ~(attempt < max_retries)
    /\ result' = None
    /\ pc' = "ret"
    /\ UNCHANGED <<env, index, attempt, trace, wait, stats, stores, calls, fetched, logs>>

\* the sleep after a 429/503 ends; the loop goes to its next index
RateLimitWake ==
    /\ pc = "rl_sleep"
    /\ wait' = 0
    /\ attempt' = attempt + 1
    /\ pc' = "req"
    /\ UNCHANGED <<env, index, trace, result, stats, stores, calls, fetched, logs>>

\* the sleep after a RequestException ends; the loop goes to its next index
RetryWake ==
    /\ pc = "ex_sleep"
    /\ wait' = 0
    /\ attempt' = attempt + 1
    /\ pc' = "req"
    /\ UNCHANGED <<env, index, trace, result, stats, stores, calls, fetched, logs>>

\* get_stock_financials, from safe_request's return to its own
FinancialsReturn ==
    /\ pc = "ret"
    /\ \E p \in parser :
        LET symbol == nifty500_symbols[index]
            ok == FinancialsOk(result, p)
            sections == Sections(result.text)
        IN IF IsRaise(result) /\ ~Catches(result)
           THEN /\ pc' = "raised"
                /\ UNCHANGED <<stats, stock_financials, fetched>>
           ELSE /\ stock_financials' = FinancialsStore(stock_financials, ok, symbol, sections)
                /\ stats' = Incr(stats, FinancialsCounter(ok))
                /\ fetched' = Append(fetched, [kind |-> "financials", symbol |-> symbol,
                                               ok |-> ok,
                                               payload |-> IF ok THEN sections ELSE <<>>])
                /\ pc' = AfterFinancials(ok)
    /\ attempt' = 0
    /\ trace' = <<>>
    /\ result' = None
    /\ UNCHANGED <<env, index, wait, share_prices, calls, logs>>

\* get_share_prices
get_share_prices ==
    /\ pc = "price"
    /\ \E h \in yahoo :
        LET symbol == nifty500_symbols[index]
            ok == PricesOk(h)
        IN /\ calls' = Append(calls, <<"prices", symbol>>)
           /\ share_prices' = PricesStore(share_prices, ok, symbol, h)
           /\ stats' = Incr(stats, PricesCounter(ok))
           /\ fetched' = Append(fetched, [kind |-> "prices", symbol |-> symbol,
                                          ok |-> ok, payload |-> IF ok THEN h ELSE 0])
    /\ pc' = "progress"
    /\ UNCHANGED <<env, index, request, wait, stock_financials, logs>>

\* ingest_data's progress check: every 10th symbol, log progress and sleep
Progress ==
    /\ pc = "progress"
    /\ IF ProgressDue(index)
       THEN /\ progress_log' = Append(progress_log, index)
            /\ \E w \in Uniform(10, 20) : wait' = w
            /\ pc' = "throttle"
       ELSE /\ pc' = "snapshot"
            /\ UNCHANGED <<progress_log, wait>>
    /\ UNCHANGED <<env, index, request, stats, stores, calls, fetched,
                   stats_log, final_reported>>

\* the throttle sleep ends
ThrottleWake ==
    /\ pc = "throttle"
    /\ wait' = 0
    /\ pc' = "snapshot"
    /\ UNCHANGED <<env, index, request, stats, stores, calls, fetched, logs>>

\* ingest_data's statistics check: every 50th symbol, log the counters
Snapshot ==
    /\ pc = "snapshot"
    /\ stats_log' = IF StatisticsDue(index) THEN Append(stats_log, index) ELSE stats_log
    /\ pc' = "loop"
    /\ UNCHANGED <<env, index, request, wait, stats, stores, calls, fetched,
                   progress_log, final_reported>>

Next ==
    \/ ingest_data
    \/ NextSymbol
    \/ Finish
    \/ get_stock_financials
    \/ Request
    \/ Exhausted
    \/ RateLimitWake
    \/ RetryWake
    \/ FinancialsReturn
    \/ get_share_prices
    \/ Progress
    \/ ThrottleWake
    \/ Snapshot

Init == InitFree \/ InitBatch

Spec == Init /\ [][Next]_vars

\* the program is one thread that always takes its next step
FairSpec == Spec /\ WF_vars(Next)

\* ------------------------------------------------------------- claims

Last(q) == q[Len(q)]

\* this step issued a request (requests.get was called)
Requested == Len(trace') = Len(trace) + 1

\* the step leaves safe_request's call behind without a sleep or a request
NothingFollows ==
    pc = "ret" => /\ wait' = 0
                  /\ trace' = <<>>
                  /\ pc' \notin {"req", "rl_sleep", "ex_sleep"}

\* at the loop head, another request is issued while fewer than max_retries
\* have been, and None is returned without a request otherwise
LoopHead ==
    /\ (pc = "req" /\ Len(trace) < max_retries) => Requested
    /\ (pc = "req" /\ Len(trace) >= max_retries)
           => (pc' = "ret" /\ result' = None /\ trace' = trace /\ wait' = 0)

C1_Step ==
    /\ (Requested /\ Last(trace').kind = "response" /\ Last(trace').status \in {429, 503})
           => (pc' = "rl_sleep" /\ wait' >= 10 /\ wait' <= 20)
    /\ pc = "rl_sleep" => (pc' = "req" /\ trace' = trace)
    /\ LoopHead
    /\ (pc' = "ret" /\ \A i \in 1..Len(trace') :
                            /\ trace'[i].kind = "response"
                            /\ trace'[i].status \in {429, 503})
           => (Len(trace') = max_retries /\ result' = None)

\* C1: every 429/503 response is followed by a sleep in [10, 20] and then, while
\* fewer than max_retries requests have been issued, by another request; when all
\* responses are 429/503 exactly max_retries requests are sent and None is returned
C1_RateLimitRetries == [][C1_Step]_vars

C1_Witness ==
    /\ pc = "ret"
    /\ max_retries = 3
    /\ Len(trace) = 3
    /\ \A i \in 1..3 : trace[i].status \in {429, 503}
    /\ \E i \in 1..3 : trace[i].status = 503
    /\ result = None

IsOtherStatus(o) == o.kind = "response" /\ o.status \notin {200, 429, 503}

C2_Step ==
    /\ (Requested /\ IsOtherStatus(Last(trace')))
           => (pc' = "ret" /\ result' = None /\ wait' = 0)
    /\ NothingFollows
    /\ (pc' = "ret" /\ trace' # <<>> /\ IsOtherStatus(trace'[1]))
           => (Len(trace') = 1 /\ result' = None)

\* C2: a response with a status other than 200, 429, 503 makes safe_request return
\* None at once, with no sleep and no further request; when the first response is
\* such a status exactly one request was sent
C2_OtherStatusIsTerminal == [][C2_Step]_vars

C2_Witness ==
    /\ pc = "ret"
    /\ max_retries = 3
    /\ trace = <<Response(500, 0)>>
    /\ result = None

C3_Step ==
    /\ (Requested /\ Last(trace').kind = "response" /\ Last(trace').status = 200)
           => (pc' = "ret" /\ result' = Last(trace') /\ wait' = 0)
    /\ (pc' = "ret" /\ result'.kind = "response")
           => (result' = Last(trace') /\ result'.status = 200)
    /\ NothingFollows

\* C3: a 200 response is returned, the same response, immediately: no sleep and
\* no further request, at whatever attempt index it arrives
C3_OkReturnsAtOnce == [][C3_Step]_vars

C3_Witness ==
    /\ pc = "ret"
    /\ Len(trace) = 3
    /\ result = Response(200, 1)
    /\ trace[1].status = 429
    /\ trace[2].kind = "RequestException"

C4_Step ==
    /\ (Requested /\ Last(trace').kind = "RequestException")
           => IF Len(trace) < max_retries - 1
              THEN pc' = "ex_sleep" /\ wait' >= 5 /\ wait' <= 10
              ELSE pc' = "ret" /\ result' = None /\ wait' = 0
    /\ pc = "ex_sleep" => (pc' = "req" /\ trace' = trace /\ Len(trace') < max_retries)
    /\ LoopHead

\* C4: a RequestException with attempts remaining (attempt index < max_retries - 1)
\* is followed by a sleep in [5, 10] and another request; on the last attempt it
\* makes safe_request return None with no sleep and no request
C4_NetworkExceptionRetries == [][C4_Step]_vars

C4_Witness ==
    /\ pc = "ret"
    /\ max_retries = 3
    /\ Len(trace) = 3
    /\ \A i \in 1..3 : trace[i].kind = "RequestException"
    /\ result = None
    /\ wait = 0

\* C5 as stated: safe_request always hands its caller a response or None
C5_NoExceptionEscapesSafeRequest == pc = "ret" => result.kind \in {"response", "None"}

C5_Step ==
    /\ pc' = "ret" =>
           /\ result'.kind \in {"response", "None", "Exception"}
           /\ result'.kind = "Exception"
                  <=> (trace' # <<>> /\ Last(trace').kind = "Exception")
    /\ (pc = "ret" /\ result.kind = "Exception") =>
           /\ pc' = "price"
           /\ stats'.failed_financials = stats.failed_financials + 1
           /\ stores' = stores
    /\ pc' # "raised"

\* C5: safe_request ends by returning a response or None, except that an error
\* other than RequestException raised by the request leaves safe_request as an
\* exception; get_stock_financials catches it, counts a failed fetch and returns,
\* so that no exception reaches ingest_data
C5_ExceptionsStopAtFinancials == [][C5_Step]_vars

C5_Witness ==
    /\ pc = "ret"
    /\ result.kind = "Exception"
    /\ Len(trace) = 2

Counters(s) ==
    <<s.successful_financials, s.failed_financials, s.successful_prices, s.failed_prices>>

\* exactly one of a, b grows, by exactly 1
OneOfTwo(a, b, a2, b2) == (a2 = a + 1 /\ b2 = b) \/ (a2 = a /\ b2 = b + 1)

SymbolDone(p) == p \in {"progress", "throttle", "snapshot", "loop", "done", "zero_division"}

C6_Step ==
    /\ pc = "ret" =>
           /\ OneOfTwo(stats.successful_financials, stats.failed_financials,
                       stats'.successful_financials, stats'.failed_financials)
           /\ stats'.successful_prices = stats.successful_prices
           /\ stats'.failed_prices = stats.failed_prices
    /\ pc = "price" =>
           /\ OneOfTwo(stats.successful_prices, stats.failed_prices,
                       stats'.successful_prices, stats'.failed_prices)
           /\ stats'.successful_financials = stats.successful_financials
           /\ stats'.failed_financials = stats.failed_financials
    /\ pc \notin {"ret", "price"} => Counters(stats') = Counters(stats)
    /\ SymbolDone(pc') =>
           /\ stats'.successful_financials + stats'.failed_financials = index'
           /\ stats'.successful_prices + stats'.failed_prices = index'
    /\ pc' = "done" => index' = Len(nifty500_symbols)

\* C6: each get_stock_financials call adds exactly 1 to exactly one of
\* successful_financials / failed_financials, each get_share_prices call exactly 1
\* to exactly one of successful_prices / failed_prices, so after every processed
\* symbol, and at the end, each pair sums to the number of symbols attempted
C6_CountersSumToAttempted == [][C6_Step]_vars

C6_Witness ==
    /\ pc = "done"
    /\ Len(nifty500_symbols) = 2
    /\ stats.successful_financials = 1
    /\ stats.failed_financials = 1
    /\ stats.successful_prices = 1
    /\ stats.failed_prices = 1

\* the multiples of m up to n, ascending
Multiples(m, n) == [k \in 1..(n \div m) |-> m * k]

\* positions whose progress check, statistics check has been made
ProgressChecked ==
    IF pc \in {"throttle", "snapshot", "loop", "done", "zero_division"}
    THEN index ELSE index - 1
StatisticsChecked ==
    IF pc \in {"loop", "done", "zero_division"} THEN index ELSE index - 1

C7_Inv ==
    /\ progress_log = Multiples(10, ProgressChecked)
    /\ stats_log = Multiples(50, StatisticsChecked)
    /\ pc = "throttle" => (wait >= 10 /\ wait <= 20 /\ Last(progress_log) = index)
    /\ (pc = "done" /\ Len(nifty500_symbols) = 25)
           => (progress_log = <<10, 20>> /\ stats_log = <<>>)

C7_Step ==
    /\ C7_Inv'
    /\ pc' = "throttle" <=> progress_log' # progress_log

\* C7: the progress log and the throttle sleep (in [10, 20]) fire together, once
\* after each symbol whose 1-based position is a multiple of 10 and nowhere else,
\* the statistics snapshot once after each multiple of 50; for 25 symbols that is
\* after symbols 10 and 20, and no snapshot
C7_PeriodicChecks == [][C7_Step]_vars

C7_Witness ==
    /\ pc = "done"
    /\ Len(nifty500_symbols) >= 50
    /\ progress_log = <<10, 20, 30, 40, 50>>
    /\ stats_log = <<50>>

\* sub-fetch invocations made so far, given the position
CallsMade ==
    IF index = 0 THEN 0
    ELSE 2 * (index - 1) +
         (IF pc = "fin" THEN 0
          ELSE IF pc \in {"req", "rl_sleep", "ex_sleep", "ret", "price"} THEN 1
          ELSE 2)

\* C8: the symbols are processed in input order, none skipped or merged; each gets
\* one financials fetch and then one price fetch, whatever the outcome of the
\* financials fetch or of the fetches before it
C8_InOrderBothFetches ==
    /\ Len(calls) = CallsMade
    /\ \A k \in 1..Len(calls) :
           calls[k] = <<IF k % 2 = 1 THEN "financials" ELSE "prices",
                        nifty500_symbols[(k + 1) \div 2]>>
    /\ pc = "done" => Len(calls) = 2 * Len(nifty500_symbols)
    /\ pc # "raised"

C8_Witness ==
    /\ pc = "done"
    /\ nifty500_symbols = <<1, 2>>
    /\ Len(calls) = 4
    /\ ~fetched[1].ok
    /\ ~fetched[2].ok
    /\ fetched[3].ok
    /\ fetched[4].ok

Terminated == pc \in {"done", "zero_division"}

\* C9: ingest_data terminates, and only after every symbol has been processed:
\* every safe_request call issues at most max_retries requests, end_time is set
\* only after the last symbol, and the final statistics are reported only then
C9_TerminatesAfterAllSymbols ==
    /\ <>Terminated
    /\ [](Len(trace) <= max_retries)
    /\ [](stats.end_time = "set" =>
              /\ index = Len(nifty500_symbols)
              /\ Len(fetched) = 2 * Len(nifty500_symbols)
              /\ Terminated)
    /\ [](final_reported => stats.end_time = "set")

C9_Witness ==
    /\ pc = "done"
    /\ Len(nifty500_symbols) = 2
    /\ final_reported
    /\ stats.end_time = "set"
    /\ \A k \in 1..4 : ~fetched[k].ok

\* successful fetches of a kind for a symbol, as positions in fetched
Successes(kind, s) ==
    {k \in 1..Len(fetched) : fetched[k].kind = kind /\ fetched[k].symbol = s /\ fetched[k].ok}

Max(S) == CHOOSE x \in S : \A y \in S : y <= x

Range(q) == {q[i] : i \in 1..Len(q)}

\* a store holds exactly the symbols fetched successfully, each with the payload
\* of its latest success
StoreMatches(store, kind) ==
    /\ DOMAIN store = {s \in Range(nifty500_symbols) : Successes(kind, s) # {}}
    /\ \A s \in DOMAIN store : store[s] = fetched[Max(Successes(kind, s))].payload

NoDuplicates(q) == Cardinality(Range(q)) = Len(q)

C10_Inv ==
    /\ StoreMatches(stock_financials, "financials")
    /\ StoreMatches(share_prices, "prices")
    /\ Cardinality(DOMAIN stock_financials) <= stats.successful_financials
    /\ Cardinality(DOMAIN share_prices) <= stats.successful_prices
    /\ NoDuplicates(nifty500_symbols) =>
           /\ Cardinality(DOMAIN stock_financials) = stats.successful_financials
           /\ Cardinality(DOMAIN share_prices) = stats.successful_prices

\* the stores and the fetch log change only together, so the invariant is
\* re-established at the steps that complete a fetch
C10_Step ==
    IF fetched' = fetched
    THEN stores' = stores /\ Counters(stats') = Counters(stats)
    ELSE /\ Len(fetched') = Len(fetched) + 1
         /\ ~Last(fetched').ok => stores' = stores
         /\ C10_Inv'

\* C10: a symbol is a key of stock_financials (share_prices) exactly when a
\* financials (price) fetch for it has succeeded, its value is the payload of the
\* latest such fetch, a failed fetch changes neither store, and each store has at
\* most as many keys as its success counter, as many when no symbol repeats
C10_StoresHoldLatestSuccess == [][C10_Step]_vars

C10_Witness ==
    /\ pc = "done"
    /\ nifty500_symbols = <<1, 1>>
    /\ fetched[1].ok
    /\ fetched[3].ok
    /\ fetched[1].payload # fetched[3].payload
    /\ stock_financials[1] = fetched[3].payload
    /\ stats.successful_financials = 2
    /\ DOMAIN share_prices = {}

====
